---- MODULE Spec2Model ----
(***************************************************************************)
(* Model of the notebook comprehensive.ipynb: the asynchronous sequence    *)
(* producers (async_gen_func, AsyncIterable, AsyncIterator), the driver    *)
(* demo_ag, the `async with` cell over AsyncContextManager, and the        *)
(* inspect classification cells.                                           *)
(*                                                                         *)
(* The notebook is a set of cells; `cell` names the experiment being run:  *)
(*   "drive"   consumer tasks request items from one producer directly     *)
(*             (__anext__, and asend on the generators)                    *)
(*   "demo"    one call of demo_ag(ag_callable, limit)                     *)
(*   "with"    tasks running `async with acm:` over one manager instance   *)
(*   "inspect" the inspect.* assertions and the awaits that end the cells  *)
(* Scheduling is asyncio's: one task runs at a time and control changes    *)
(* hands only at an await that really suspends (asyncio.sleep), so every   *)
(* action below is the code between two suspension points.                 *)
(***************************************************************************)
EXTENDS Integers, Sequences, FiniteSets, TLC

\* ---------------------------------------------------------------- bounds
\* Largest limit passed to a producer.
MaxLimit == 3
\* Requests (__anext__ / asend) made on the producer of the "drive" cell.
MaxCalls == 5
\* asend calls with a non-None value in one run of the "drive" cell.
MaxSends == 1
\* `async with` scopes run over the one AsyncContextManager instance.
MaxScopes == 3

Limits == 0..MaxLimit
\* Values a consumer injects with asend: below, at and above the limit.
SendValues == -1..(MaxLimit + 1)
Tasks == {1, 2}
Kinds == {"async_gen_func", "AsyncIterable", "AsyncIterator"}
Generators == {"async_gen_func", "AsyncIterable"}

VARIABLES
    cell,        \* the experiment this behaviour runs
    \* --- the producer under test
    kind,        \* which producer ag_callable builds
    limit,       \* its limit argument
    n,           \* the cursor: self.n, or the local n of async_gen_func
    gst,         \* async generator frame: created, sleeping, suspended, closed
    \* --- "drive": consumer tasks
    tpc,         \* per task: idle, or sleeping inside a request
    log,         \* request/response pairs, in order of completion
    calls,       \* requests started
    \* --- "demo": demo_ag's frame
    pc, running, out, escaped,
    \* --- "with": the async with statement
    wpc, body, exc, enters, exits, task, scopes, printed, resource_used,
    outcomes,    \* the block and the final state of each finished task
    \* --- "inspect"
    frame, results

prodVars == <<kind, limit, n, gst>>
driveVars == <<tpc, log, calls>>
demoVars == <<pc, running, out, escaped>>
withVars == <<wpc, body, exc, enters, exits, task, scopes, printed, resource_used,
              outcomes>>
inspVars == <<frame, results>>
vars == <<cell, prodVars, driveVars, demoVars, withVars, inspVars>>

\* ------------------------------------------------------- values exchanged
\* What a request delivers: an item, or the exhaustion signal.
Item(k) == [sig |-> "item", val |-> k]
StopAsyncIteration == [sig |-> "StopAsyncIteration", val |-> 0]
\* What a consumer sends in: None (plain __anext__) or a value (asend(v)).
NoneValue == [isNone |-> TRUE, val |-> 0]
Sent(v) == [isNone |-> FALSE, val |-> v]

\* ------------------------------------------------------------- producers
\* `while n < limit:` of both generators.
LoopRunsMutant(c, lim) == c <= lim
LoopRuns(c, lim) == c < lim

\* One pass from the loop head of a generator with cursor c:
\* `while n < limit: n += 1; yield n`, else fall off the end.
LoopHead(c, lim) ==
    IF LoopRuns(c, lim)
    THEN [n |-> c + 1, gst |-> "suspended", res |-> Item(c + 1)]
    ELSE [n |-> c, gst |-> "closed", res |-> StopAsyncIteration]

\* The cursor a generator starts its loop with, once its first sleep is over:
\* async_gen_func assigns n = 0, AsyncIterable.__aiter__ reads self.n.
GenStart(k, c) == IF k = "async_gen_func" THEN 0 ELSE c

\* `value = yield self.n; if value is not None: self.n = value` of
\* AsyncIterable.__aiter__; async_gen_func's `yield n` discards what is sent.
AfterYieldMutant(k, c, sent) == c
AfterYield(k, c, sent) ==
    IF k = "AsyncIterable" /\ ~sent.isNone THEN sent.val ELSE c

\* Resuming a generator frame that is not asleep: at its yield, or finished.
GenResume(k, c, lim, st, sent) ==
    IF st = "closed"
    THEN [n |-> c, gst |-> "closed", res |-> StopAsyncIteration]
    ELSE LoopHead(AfterYield(k, c, sent), lim)

\* `if self.n > self.limit: raise StopAsyncIteration` of AsyncIterator.
ExhaustedMutant(c, lim) == c >= lim
Exhausted(c, lim) == c > lim

\* A restartable iterator: the cursor is rewound when the end is reached.
AnextBodyMutant(c, lim) ==
    LET m == c + 1
    IN  IF m > lim THEN [n |-> 0, res |-> StopAsyncIteration]
                   ELSE [n |-> m, res |-> Item(m)]
\* AsyncIterator.__anext__ after its sleep: `self.n += 1`, the bound check,
\* `return self.n`.
AnextBody(c, lim) ==
    LET m == c + 1
    IN  [n |-> m, res |-> IF Exhausted(m, lim) THEN StopAsyncIteration ELSE Item(m)]

\* --------------------------------------------------------- idle defaults
DriveIdle == tpc = [t \in Tasks |-> "idle"] /\ log = <<>> /\ calls = 0
DemoIdle == pc = "off" /\ running = FALSE /\ out = <<>> /\ escaped = FALSE
WithIdle ==
    /\ wpc = "off" /\ body = "none" /\ exc = "none" /\ enters = 0 /\ exits = 0
    /\ task = "none" /\ scopes = 0 /\ printed = <<>> /\ resource_used = FALSE
    /\ outcomes = <<>>
InspIdle == frame = <<>> /\ results = <<>>
ProdIdle == kind = "async_gen_func" /\ limit = 0 /\ n = 0 /\ gst = "created"

\* ------------------------------------------------------- the "drive" cell
\* ag_callable(limit): __init__ sets self.n = 0; a generator frame is created.
InitDrive ==
    /\ cell = "drive"
    /\ kind \in Kinds /\ limit \in Limits /\ n = 0 /\ gst = "created"
    /\ DriveIdle /\ DemoIdle /\ WithIdle /\ InspIdle

Entry(t, sent, res) == [task |-> t, arg |-> sent, sig |-> res.sig, val |-> res.val]

NumSends == Cardinality({i \in 1..Len(log) : ~log[i].arg.isNone})

\* A task awaits AsyncIterator.__anext__(): it runs to `await asyncio.sleep`.
AnextCall(t) ==
    /\ cell = "drive" /\ kind = "AsyncIterator"
    /\ tpc[t] = "idle" /\ calls < MaxCalls
    /\ tpc' = [tpc EXCEPT ![t] = "sleeping"]
    /\ calls' = calls + 1
    /\ UNCHANGED <<cell, prodVars, log, demoVars, withVars, inspVars>>

\* The sleep of that call is over: the rest of __anext__ runs unsuspended.
AnextWake(t) ==
    /\ cell = "drive" /\ kind = "AsyncIterator"
    /\ tpc[t] = "sleeping"
    /\ LET r == AnextBody(n, limit)
       IN  /\ n' = r.n
           /\ log' = Append(log, Entry(t, NoneValue, r.res))
    /\ tpc' = [tpc EXCEPT ![t] = "idle"]
    /\ UNCHANGED <<cell, kind, limit, gst, calls, demoVars, withVars, inspVars>>

\* The first __anext__ on a generator: its frame runs to `await asyncio.sleep`.
GenFirst ==
    /\ cell = "drive" /\ kind \in Generators
    /\ gst = "created" /\ tpc[1] = "idle" /\ calls < MaxCalls
    /\ gst' = "sleeping"
    /\ tpc' = [tpc EXCEPT ![1] = "sleeping"]
    /\ calls' = calls + 1
    /\ UNCHANGED <<cell, kind, limit, n, log, demoVars, withVars, inspVars>>

\* That sleep is over: the generator runs to its first yield or to its end.
GenWake ==
    /\ cell = "drive" /\ kind \in Generators
    /\ gst = "sleeping"
    /\ LET r == LoopHead(GenStart(kind, n), limit)
       IN  /\ n' = r.n /\ gst' = r.gst
           /\ log' = Append(log, Entry(1, NoneValue, r.res))
    /\ tpc' = [tpc EXCEPT ![1] = "idle"]
    /\ UNCHANGED <<cell, kind, limit, calls, demoVars, withVars, inspVars>>

\* __anext__ on a generator past its sleep: no suspension before the answer.
GenNext ==
    /\ cell = "drive" /\ kind \in Generators
    /\ gst \in {"suspended", "closed"} /\ tpc[1] = "idle" /\ calls < MaxCalls
    /\ LET r == GenResume(kind, n, limit, gst, NoneValue)
       IN  /\ n' = r.n /\ gst' = r.gst
           /\ log' = Append(log, Entry(1, NoneValue, r.res))
    /\ calls' = calls + 1
    /\ UNCHANGED <<cell, kind, limit, tpc, demoVars, withVars, inspVars>>

\* asend(v) on a generator waiting at its yield, or finished.
GenSend(v) ==
    /\ cell = "drive" /\ kind \in Generators
    /\ gst \in {"suspended", "closed"} /\ tpc[1] = "idle" /\ calls < MaxCalls
    /\ NumSends < MaxSends
    /\ LET r == GenResume(kind, n, limit, gst, Sent(v))
       IN  /\ n' = r.n /\ gst' = r.gst
           /\ log' = Append(log, Entry(1, Sent(v), r.res))
    /\ calls' = calls + 1
    /\ UNCHANGED <<cell, kind, limit, tpc, demoVars, withVars, inspVars>>

DriveNext ==
    \/ \E t \in Tasks : AnextCall(t)
    \/ \E t \in Tasks : AnextWake(t)
    \/ GenFirst
    \/ GenWake
    \/ GenNext
    \/ \E v \in SendValues : GenSend(v)

\* -------------------------------------------------------- the "demo" cell
\* One thing demo_ag prints.
Tok(text, k) == [text |-> text, val |-> k]

\* `except StopAsyncIteration:` of the hand-written loop.
CaughtMutant(sig) == sig = "StopIteration"
Caught(sig) == sig = "StopAsyncIteration"

\* `await demo_ag(ag_callable, limit)` is about to run.
InitDemo ==
    /\ cell = "demo"
    /\ kind \in Kinds /\ limit \in Limits /\ n = 0 /\ gst = "created"
    /\ pc = "start" /\ running = FALSE /\ out = <<>> /\ escaped = FALSE
    /\ DriveIdle /\ WithIdle /\ InspIdle

\* print("manual: "); iter_ = ag_callable(*args);
\* async_gen = type(iter_).__aiter__(iter_); running = True
DemoStart ==
    /\ cell = "demo" /\ pc = "start"
    /\ out' = Append(out, Tok("manual: ", 0))
    /\ n' = 0 /\ gst' = "created"
    /\ running' = TRUE
    /\ pc' = "manual"
    /\ UNCHANGED <<cell, kind, limit, escaped, driveVars, withVars, inspVars>>

\* try/except/else around `target = await async_gen.__anext__()`.
DemoDeliver(res) ==
    IF res.sig = "item"
    THEN /\ out' = Append(out, Tok("item", res.val))
         /\ pc' = "manual"
         /\ UNCHANGED <<running, escaped>>
    ELSE IF Caught(res.sig)
    THEN /\ running' = FALSE
         /\ pc' = "manual"
         /\ UNCHANGED <<out, escaped>>
    ELSE /\ escaped' = TRUE
         /\ pc' = "raised"
         /\ UNCHANGED <<out, running>>

\* `while running:` holds and the request suspends at asyncio.sleep: every
\* AsyncIterator.__anext__, and the first resumption of a generator.
DemoAwait ==
    /\ cell = "demo" /\ pc = "manual" /\ running
    /\ kind = "AsyncIterator" \/ gst = "created"
    /\ gst' = IF kind \in Generators THEN "sleeping" ELSE gst
    /\ pc' = "manual_sleep"
    /\ UNCHANGED <<cell, kind, limit, n, running, out, escaped,
                   driveVars, withVars, inspVars>>

\* The sleep is over; the request completes and the loop handles its outcome.
DemoWake ==
    /\ cell = "demo" /\ pc = "manual_sleep"
    /\ IF kind = "AsyncIterator"
       THEN LET r == AnextBody(n, limit)
            IN  n' = r.n /\ gst' = gst /\ DemoDeliver(r.res)
       ELSE LET r == LoopHead(GenStart(kind, n), limit)
            IN  n' = r.n /\ gst' = r.gst /\ DemoDeliver(r.res)
    /\ UNCHANGED <<cell, kind, limit, driveVars, withVars, inspVars>>

\* `while running:` holds and the generator answers without suspending.
DemoStep ==
    /\ cell = "demo" /\ pc = "manual" /\ running
    /\ kind \in Generators /\ gst \in {"suspended", "closed"}
    /\ LET r == GenResume(kind, n, limit, gst, NoneValue)
       IN  n' = r.n /\ gst' = r.gst /\ DemoDeliver(r.res)
    /\ UNCHANGED <<cell, kind, limit, driveVars, withVars, inspVars>>

\* `while running:` fails: the loop's else prints "done"; then
\* print("magic : ") and `async for` builds async_gen_func(*args), whose
\* frame takes over n and gst (iter_ is not used again).
DemoElse ==
    /\ cell = "demo" /\ pc = "manual" /\ ~running
    /\ out' = out \o <<Tok("done", 0), Tok("magic : ", 0)>>
    /\ n' = 0 /\ gst' = "created"
    /\ pc' = "magic"
    /\ UNCHANGED <<cell, kind, limit, running, escaped,
                   driveVars, withVars, inspVars>>

\* `async for target in ...: print(target) else: print("done")`.
MagicDeliver(res) ==
    IF res.sig = "item"
    THEN out' = Append(out, Tok("item", res.val)) /\ pc' = "magic"
    ELSE out' = Append(out, Tok("done", 0)) /\ pc' = "done"

\* The async for's first request suspends at the generator's sleep.
MagicAwait ==
    /\ cell = "demo" /\ pc = "magic" /\ gst = "created"
    /\ gst' = "sleeping"
    /\ pc' = "magic_sleep"
    /\ UNCHANGED <<cell, kind, limit, n, running, out, escaped,
                   driveVars, withVars, inspVars>>

MagicWake ==
    /\ cell = "demo" /\ pc = "magic_sleep"
    /\ LET r == LoopHead(GenStart("async_gen_func", n), limit)
       IN  n' = r.n /\ gst' = r.gst /\ MagicDeliver(r.res)
    /\ UNCHANGED <<cell, kind, limit, running, escaped,
                   driveVars, withVars, inspVars>>

MagicStep ==
    /\ cell = "demo" /\ pc = "magic" /\ gst = "suspended"
    /\ LET r == GenResume("async_gen_func", n, limit, gst, NoneValue)
       IN  n' = r.n /\ gst' = r.gst /\ MagicDeliver(r.res)
    /\ UNCHANGED <<cell, kind, limit, running, escaped,
                   driveVars, withVars, inspVars>>

DemoNext ==
    \/ DemoStart
    \/ DemoAwait
    \/ DemoWake
    \/ DemoStep
    \/ DemoElse
    \/ MagicAwait
    \/ MagicWake
    \/ MagicStep

\* -------------------------------------------------------- the "with" cell
\* What the guarded block does: the cell's own block ("demo": set
\* acm.resource_used, then 1/0, inside try/except Exception), a block that
\* returns, and a block that awaits asyncio.sleep and so can be cancelled.
Bodies == {"demo", "return", "sleep"}

\* AsyncContextManager.__aexit__ is `pass`: it returns None, which is falsy.
AexitReturnMutant(e) == TRUE
AexitReturn(e) == FALSE

\* `except Exception as exc:` encloses the cell's own block only.
HandlerCatches(b, e) == b = "demo" /\ e = "ZeroDivisionError"

\* acm = AsyncContextManager(); a task is about to run `async with acm:`.
InitWith ==
    /\ cell = "with"
    /\ wpc = "start" /\ body \in Bodies /\ exc = "none"
    /\ enters = 0 /\ exits = 0 /\ task = "pending" /\ scopes = 1
    /\ printed = <<>> /\ resource_used = FALSE /\ outcomes = <<>>
    /\ ProdIdle /\ DriveIdle /\ DemoIdle /\ InspIdle

\* `async with acm:` awaits __aenter__, which reads self.exclusive_resource
\* and returns without suspending.
WithEnter ==
    /\ cell = "with" /\ wpc = "start"
    /\ enters' = enters + 1
    /\ wpc' = "body"
    /\ UNCHANGED <<cell, outcomes, body, exc, exits, task, scopes, printed, resource_used,
                   prodVars, driveVars, demoVars, inspVars>>

\* acm.resource_used = True; 1/0
BodyDemo ==
    /\ cell = "with" /\ wpc = "body" /\ body = "demo"
    /\ resource_used' = TRUE
    /\ exc' = "ZeroDivisionError"
    /\ wpc' = "exit"
    /\ UNCHANGED <<cell, outcomes, body, enters, exits, task, scopes, printed,
                   prodVars, driveVars, demoVars, inspVars>>

\* The block runs to its end.
BodyReturn ==
    /\ cell = "with" /\ wpc = "body" /\ body = "return"
    /\ wpc' = "exit"
    /\ UNCHANGED <<cell, outcomes, body, exc, enters, exits, task, scopes, printed,
                   resource_used, prodVars, driveVars, demoVars, inspVars>>

\* The block awaits asyncio.sleep: the task is suspended inside the scope.
BodySuspend ==
    /\ cell = "with" /\ wpc = "body" /\ body = "sleep"
    /\ wpc' = "suspended"
    /\ UNCHANGED <<cell, outcomes, body, exc, enters, exits, task, scopes, printed,
                   resource_used, prodVars, driveVars, demoVars, inspVars>>

\* The sleep is over and the block runs to its end.
BodyResume ==
    /\ cell = "with" /\ wpc = "suspended"
    /\ wpc' = "exit"
    /\ UNCHANGED <<cell, outcomes, body, exc, enters, exits, task, scopes, printed,
                   resource_used, prodVars, driveVars, demoVars, inspVars>>

\* task.cancel(): CancelledError is raised in the block at its await.
Cancel ==
    /\ cell = "with" /\ wpc = "suspended"
    /\ exc' = "CancelledError"
    /\ wpc' = "exit"
    /\ UNCHANGED <<cell, outcomes, body, enters, exits, task, scopes, printed,
                   resource_used, prodVars, driveVars, demoVars, inspVars>>

\* A hand-rolled scope that calls __aexit__ only when the block returns.
WithExitMutant ==
    /\ cell = "with" /\ wpc = "exit"
    /\ exits' = IF exc = "none" THEN exits + 1 ELSE exits
    /\ wpc' = IF exc = "none" THEN "after" ELSE "unwind"
    /\ UNCHANGED <<cell, outcomes, body, exc, enters, task, scopes, printed, resource_used,
                   prodVars, driveVars, demoVars, inspVars>>
\* The end of `async with`: __aexit__(exc_type, exc_value, tb) is awaited
\* (it does not suspend); a pending exception goes on unless it returned true.
WithExit ==
    /\ cell = "with" /\ wpc = "exit"
    /\ exits' = exits + 1
    /\ IF exc # "none" /\ ~AexitReturn(exc)
       THEN wpc' = "unwind" /\ exc' = exc
       ELSE wpc' = "after" /\ exc' = "none"
    /\ UNCHANGED <<cell, outcomes, body, enters, task, scopes, printed, resource_used,
                   prodVars, driveVars, demoVars, inspVars>>

\* The exception leaves the with statement: `except Exception as exc:
\* print(exc)` of the cell takes it, otherwise it ends the task.
WithPropagate ==
    /\ cell = "with" /\ wpc = "unwind"
    /\ IF HandlerCatches(body, exc)
       THEN /\ printed' = Append(printed, "division by zero")
            /\ task' = "completed"
       ELSE /\ printed' = printed
            /\ task' = IF exc = "CancelledError" THEN "cancelled" ELSE "failed"
    /\ wpc' = "end"
    /\ outcomes' = Append(outcomes, [body |-> body, task |-> task'])
    /\ UNCHANGED <<cell, body, exc, enters, exits, scopes, resource_used,
                   prodVars, driveVars, demoVars, inspVars>>

\* Nothing is pending after the with statement: the task returns.
WithComplete ==
    /\ cell = "with" /\ wpc = "after"
    /\ task' = "completed"
    /\ wpc' = "end"
    /\ outcomes' = Append(outcomes, [body |-> body, task |-> task'])
    /\ UNCHANGED <<cell, body, exc, enters, exits, scopes, printed, resource_used,
                   prodVars, driveVars, demoVars, inspVars>>

\* Another task runs `async with acm:` over the same instance.
NextScope ==
    /\ cell = "with" /\ wpc = "end" /\ scopes < MaxScopes
    /\ \E b \in Bodies : body' = b
    /\ wpc' = "start" /\ exc' = "none" /\ task' = "pending"
    /\ scopes' = scopes + 1
    /\ UNCHANGED <<cell, outcomes, enters, exits, printed, resource_used,
                   prodVars, driveVars, demoVars, inspVars>>

WithNext ==
    \/ WithEnter
    \/ BodyDemo
    \/ BodyReturn
    \/ BodySuspend
    \/ BodyResume
    \/ Cancel
    \/ WithExit
    \/ WithPropagate
    \/ WithComplete
    \/ NextScope

\* ----------------------------------------------------- the "inspect" cells
\* NCF, NCO: native_coroutine_function and the object it returns; FLO: the
\* FutureLike instance; GBCF, GBCO: the @asyncio.coroutine generator function
\* and the object it returns.
Subjects == {"NCF", "NCO", "FLO", "GBCF", "GBCO"}
Awaited == {"NCO", "FLO", "GBCO"}

\* What each subject is, from how the cell defines it: its type, the flags of
\* its code object, and whether its class defines __await__.
Shape(o) ==
    CASE o = "NCF"  -> [type |-> "function", flags |-> {"CO_COROUTINE"},
                        has_await |-> FALSE]
      [] o = "NCO"  -> [type |-> "coroutine", flags |-> {"CO_COROUTINE"},
                        has_await |-> TRUE]
      [] o = "FLO"  -> [type |-> "FutureLike", flags |-> {},
                        has_await |-> TRUE]
      [] o = "GBCF" -> [type |-> "function",
                        flags |-> {"CO_GENERATOR", "CO_ITERABLE_COROUTINE"},
                        has_await |-> FALSE]
      [] o = "GBCO" -> [type |-> "generator",
                        flags |-> {"CO_GENERATOR", "CO_ITERABLE_COROUTINE"},
                        has_await |-> FALSE]

\* The subject as inspect sees it now: its shape and the state of its frame.
Obj(o) == [shape |-> Shape(o), state |-> IF o \in Awaited THEN frame[o] ELSE "none"]

iscoroutinefunction(x) ==
    x.shape.type = "function" /\ "CO_COROUTINE" \in x.shape.flags

iscoroutine(x) == x.shape.type = "coroutine"

\* isinstance(x, collections.abc.Awaitable)
isAwaitableABC(x) == x.shape.has_await

\* Only objects whose class defines __await__ are taken for awaitables.
isawaitableMutant(x) == isAwaitableABC(x)
isawaitable(x) ==
    \/ x.shape.type = "coroutine"
    \/ x.shape.type = "generator" /\ "CO_ITERABLE_COROUTINE" \in x.shape.flags
    \/ isAwaitableABC(x)

\* What `await o` returns.
Value(o) == CASE o = "FLO" -> 1871 [] o = "NCO" -> 1893 [] o = "GBCO" -> 1904

\* The three cells have built their subjects; nothing is awaited yet.
InitInspect ==
    /\ cell = "inspect"
    /\ frame = [o \in Awaited |-> "created"]
    /\ results = <<>>
    /\ ProdIdle /\ DriveIdle /\ DemoIdle /\ WithIdle

\* `await NCO`: the coroutine returns 1893 without suspending.
AwaitNative ==
    /\ cell = "inspect" /\ frame["NCO"] = "created"
    /\ frame' = [frame EXCEPT !["NCO"] = "closed"]
    /\ results' = Append(results, Value("NCO"))
    /\ UNCHANGED <<cell, prodVars, driveVars, demoVars, withVars>>

\* `await FLO`, `await GBCO`: the inner frame runs to asyncio.sleep.
AwaitStart(o) ==
    /\ cell = "inspect" /\ o \in {"FLO", "GBCO"} /\ frame[o] = "created"
    /\ frame' = [frame EXCEPT ![o] = "suspended"]
    /\ UNCHANGED <<cell, results, prodVars, driveVars, demoVars, withVars>>

\* The sleep is over: the inner frame returns its value.
AwaitDone(o) ==
    /\ cell = "inspect" /\ o \in {"FLO", "GBCO"} /\ frame[o] = "suspended"
    /\ frame' = [frame EXCEPT ![o] = "closed"]
    /\ results' = Append(results, Value(o))
    /\ UNCHANGED <<cell, prodVars, driveVars, demoVars, withVars>>

InspectNext ==
    \/ AwaitNative
    \/ \E o \in Awaited : AwaitStart(o)
    \/ \E o \in Awaited : AwaitDone(o)

\* ------------------------------------------------------ the specification
Init == InitDrive \/ InitDemo \/ InitWith \/ InitInspect
Next == DriveNext \/ DemoNext \/ WithNext \/ InspectNext
Spec == Init /\ [][Next]_vars
\* The event loop runs a ready task and fires a due timer, so demo_ag is
\* resumed whenever it can take a step.
FairSpec == Spec /\ WF_vars(DemoNext)

\* ================================================================ claims
NoInjection == NumSends = 0
Stops == {i \in 1..Len(log) : log[i].sig = "StopAsyncIteration"}
Items == {i \in 1..Len(log) : log[i].sig = "item"}

\* C1: drained without injection, each of the three producers delivers
\* exactly 1, 2, ..., limit in this order (nothing when limit = 0) and
\* signals exhaustion on the request after that, so the three agree.
C1_DrainYieldsOneToLimit ==
    (cell = "drive" /\ NoInjection) =>
        \A i \in 1..Len(log) :
            IF i <= limit
            THEN log[i].sig = "item" /\ log[i].val = i
            ELSE log[i].sig = "StopAsyncIteration"

C1_Witness ==
    /\ cell = "drive" /\ kind = "AsyncIterable" /\ limit = MaxLimit
    /\ NoInjection
    /\ Len(log) = limit + 1
    /\ log[limit].sig = "item" /\ log[limit].val = limit
    /\ log[limit + 1].sig = "StopAsyncIteration"

\* An asend(v) made on the AsyncIterable generator right after an item.
SendsAfterItem ==
    {i \in 2..Len(log) : ~log[i].arg.isNone /\ log[i - 1].sig = "item"}

\* C2 as stated: asend(v) after an item always makes the next item v + 1.
C2_SendYieldsSuccessor ==
    (cell = "drive" /\ kind = "AsyncIterable") =>
        \A i \in SendsAfterItem :
            log[i].sig = "item" /\ log[i].val = log[i].arg.val + 1

\* C2 amended: asend(v) after an item makes the next item v + 1 when
\* v < limit; when v >= limit the generator ends and the request signals
\* exhaustion instead of producing an item.
C2_SendYieldsSuccessorBelowLimit ==
    (cell = "drive" /\ kind = "AsyncIterable") =>
        \A i \in SendsAfterItem :
            IF log[i].arg.val < limit
            THEN log[i].sig = "item" /\ log[i].val = log[i].arg.val + 1
            ELSE log[i].sig = "StopAsyncIteration"

C2_Witness ==
    /\ cell = "drive" /\ kind = "AsyncIterable"
    /\ \E i \in SendsAfterItem :
        /\ log[i].sig = "item"
        /\ log[i].val = log[i].arg.val + 1
        /\ log[i].val # log[i - 1].val + 1

\* C3: once enter has completed, __aexit__ runs exactly once per scope,
\* whether the block returns, raises or is cancelled, on one manager
\* instance: never zero times when the scope is left, never twice.
C3_ExitOncePerScope ==
    cell = "with" =>
        /\ wpc = "start" => enters = scopes - 1 /\ exits = enters
        /\ wpc \in {"body", "suspended", "exit"} =>
               enters = scopes /\ exits = enters - 1
        /\ wpc \in {"unwind", "after", "end"} =>
               enters = scopes /\ exits = enters

C3_Witness ==
    /\ cell = "with" /\ wpc = "end" /\ exits = 3
    /\ \E i, j, k \in 1..Len(outcomes) :
        /\ outcomes[i].body # "demo" /\ outcomes[i].task = "completed"
        /\ outcomes[j].body = "demo"
        /\ outcomes[k].task = "cancelled"

\* C4: a failure raised in the block is handed to __aexit__ and, __aexit__
\* returning a falsy value, goes on propagating once __aexit__ has
\* completed; the cell's division by zero reaches its except clause and is
\* printed. A failure is dropped only if __aexit__ returned a true value.
C4_FailurePropagatesAfterExit ==
    [][ /\ (cell = "with" /\ wpc = "exit" /\ exc # "none") =>
               /\ exits' = exits + 1
               /\ (exc' = "none" => AexitReturn(exc))
               /\ wpc' = "unwind" /\ exc' = exc
        /\ (cell = "with" /\ wpc = "unwind" /\ body = "demo") =>
               /\ exits = enters
               /\ printed' = Append(printed, "division by zero")
      ]_vars

C4_Witness ==
    /\ cell = "with" /\ wpc = "end" /\ body = "demo"
    /\ exc = "ZeroDivisionError" /\ exits = enters
    /\ printed # <<>>

\* C5: a task cancelled while suspended inside the scope runs __aexit__
\* before it reaches a final state, and that final state is "cancelled":
\* the cancellation is not turned into a normal completion.
C5_CancelRunsExitThenSurfaces ==
    [][ /\ (cell = "with" /\ wpc = "suspended" /\ exc' = "CancelledError") =>
               task' = "pending" /\ exits' = enters - 1
        /\ (cell = "with" /\ wpc = "exit" /\ exc = "CancelledError") =>
               /\ exits' = exits + 1 /\ task' = "pending"
               /\ wpc' = "unwind" /\ exc' = "CancelledError"
        /\ (cell = "with" /\ wpc = "unwind" /\ exc = "CancelledError") =>
               task' = "cancelled" /\ exits = enters
      ]_vars

C5_Witness ==
    /\ cell = "with" /\ wpc = "end" /\ body = "sleep"
    /\ task = "cancelled" /\ exits = enters

\* A request completes in this step.
Answered == Len(log') = Len(log) + 1
Answer == log'[Len(log')]
C6_Scope ==
    cell = "drive" /\ kind \in {"AsyncIterable", "AsyncIterator"} /\ NumSends' = 0

\* C6 as stated: without injection the cursor of AsyncIterable and of
\* AsyncIterator never decreases and stays within 0 <= n <= limit, also
\* after requests made once the sequence is exhausted, and a request signals
\* exhaustion exactly when the cursor has reached the limit.
C6_CursorWithinBound ==
    [][ C6_Scope =>
            /\ n' >= n /\ 0 <= n' /\ n' <= limit
            /\ Answered => (Answer.sig = "StopAsyncIteration" <=> n >= limit)
      ]_vars

\* C6 amended: without injection the cursor never decreases and is never
\* negative, and a request signals exhaustion exactly when the cursor
\* before it is at or past the limit. The cursor of AsyncIterable stays
\* at most limit; the cursor of AsyncIterator is incremented by every
\* request, so it equals the number of requests answered and passes the
\* limit from the first exhaustion signal on.
C6_CursorMonotone ==
    [][ C6_Scope =>
            /\ n' >= n /\ 0 <= n'
            /\ kind = "AsyncIterable" => n' <= limit
            /\ kind = "AsyncIterator" => n' = Len(log')
            /\ Answered => (Answer.sig = "StopAsyncIteration" <=> n >= limit)
      ]_vars

C6_Witness ==
    /\ cell = "drive" /\ kind = "AsyncIterator" /\ limit > 0
    /\ n > limit + 1
    /\ Cardinality(Stops) >= 2

\* The truth table of the three predicates, per subject:
\* <<iscoroutinefunction, iscoroutine, isawaitable>>.
Table(o) ==
    CASE o = "NCF"  -> <<TRUE, FALSE, FALSE>>
      [] o = "NCO"  -> <<FALSE, TRUE, TRUE>>
      [] o = "FLO"  -> <<FALSE, FALSE, TRUE>>
      [] o = "GBCF" -> <<FALSE, FALSE, FALSE>>
      [] o = "GBCO" -> <<FALSE, FALSE, TRUE>>

\* C7: the three predicates give the table on the five subjects, before,
\* during and after the awaits of the cells.
C7_ClassifierTable ==
    cell = "inspect" =>
        \A o \in Subjects :
            <<iscoroutinefunction(Obj(o)), iscoroutine(Obj(o)),
              isawaitable(Obj(o))>> = Table(o)

C7_Witness ==
    /\ cell = "inspect"
    /\ \A o \in Awaited : frame[o] = "closed"
    /\ Len(results) = 3

\* What the hand-written loop prints for a limit: the items 1..lim in order.
ManualOut(lim) ==
    <<Tok("manual: ", 0)>> \o [i \in 1..lim |-> Tok("item", i)]
IsPrefix(a, b) == Len(a) <= Len(b) /\ a = SubSeq(b, 1, Len(a))
DoneCount == Cardinality({i \in 1..Len(out) : i <= limit + 2 /\ out[i].text = "done"})
InLoop == pc \in {"manual", "manual_sleep"}
PastLoop == pc \in {"magic", "magic_sleep", "done"}

C8_LoopContainsExhaustion ==
    cell = "demo" =>
        /\ ~escaped /\ pc # "raised"
        /\ InLoop => IsPrefix(out, ManualOut(limit)) /\ DoneCount = 0
        /\ (InLoop /\ ~running) => (pc = "manual" /\ out = ManualOut(limit))
        /\ PastLoop =>
               /\ ~running
               /\ IsPrefix(ManualOut(limit) \o <<Tok("done", 0)>>, out)
               /\ DoneCount = 1

\* C8: for each producer and limit, the hand-written loop of demo_ag prints
\* the items in order, on StopAsyncIteration stops requesting, runs its else
\* branch ("done") exactly once, never lets StopAsyncIteration out of
\* demo_ag, and always terminates.
C8_LoopEndsQuietly ==
    /\ []C8_LoopContainsExhaustion
    /\ (cell = "demo") ~> PastLoop

C8_Witness ==
    /\ cell = "demo" /\ kind = "AsyncIterator" /\ limit = MaxLimit
    /\ pc = "magic" /\ ~running /\ ~escaped
    /\ out = ManualOut(limit) \o <<Tok("done", 0), Tok("magic : ", 0)>>

\* C9: once an AsyncIterator has raised StopAsyncIteration, every later
\* __anext__ on it raises StopAsyncIteration too and returns no value.
C9_ExhaustionIsPermanent ==
    (cell = "drive" /\ kind = "AsyncIterator") =>
        \A i \in Stops : \A j \in (i + 1)..Len(log) : j \in Stops

C9_Witness ==
    /\ cell = "drive" /\ kind = "AsyncIterator" /\ limit > 0
    /\ \E i \in Stops : i + 2 \in Stops

\* C10: with two tasks calling __anext__ on one AsyncIterator, under every
\* interleaving of their sleeps, each value 1..limit is returned at most
\* once in total, and exactly once as soon as a larger value or the
\* exhaustion signal has been delivered: no duplicate, no gap.
C10_EachValueOnce ==
    (cell = "drive" /\ kind = "AsyncIterator") =>
        /\ \A i \in Items : log[i].val \in 1..limit
        /\ \A i, j \in Items : log[i].val = log[j].val => i = j
        /\ \A i \in 1..Len(log) : \A v \in 1..limit :
               (i \in Stops \/ log[i].val > v) =>
                   \E j \in Items : j < i /\ log[j].val = v

C10_Witness ==
    /\ cell = "drive" /\ kind = "AsyncIterator" /\ limit = MaxLimit
    /\ tpc = [t \in Tasks |-> "sleeping"]
    /\ \E i, j \in Items : log[i].task = 1 /\ log[j].task = 2
====
